---- MODULE Spec2Model ----
(***************************************************************************)
(* wsl-tools: the distribution handle (WSLDistro) with its profile editor, *)
(* and the registry of distributions (WSLManager).                         *)
(*                                                                         *)
(* A Python str is a sequence of code points, so that substring tests,     *)
(* splitlines, the regular expressions and the replacement templates of    *)
(* re.sub are computed as Python computes them.                            *)
(***************************************************************************)
EXTENDS Integers, Sequences, FiniteSets, TLC

VARIABLES
    profile_file,   \* ~/.profile of the distribution: [exists, data]
    resolv_conf,    \* text of /etc/resolv.conf inside the distribution
    distro,         \* the handle under use: [name, version]
    op,             \* the last call made: [name, variable, value]
    err,            \* the exception the last call raised, "" when it returned
    platform,       \* what wsl.exe knows: the rows listed by `wsl.exe -l -v`
    supplied,       \* the blacklist argument WSLManager was constructed with
    blacklist,      \* WSLManager._blacklist
    distros,        \* WSLManager._distros: name -> handle [id, name, version]
    nextId,         \* identity of the next WSLDistro object constructed
    ret,            \* the handle the last import_distro returned
    listing,        \* the table `wsl.exe -l -v` prints: [versioned, rows]
    calls,          \* per handle of one distribution, its set_export under way
    log,            \* the set_export calls that ended, in the order they ended
    registered,     \* the distribution is registered with wsl.exe
    home,           \* home directory of the distribution's default user
    passwd,         \* text of /etc/passwd inside the distribution
    bus,            \* the system message bus of the distribution is running
    cache,          \* __dict__ of the handle: cached property -> value
    ran,            \* the cached properties whose function has run on the handle
    reads,          \* property reads and start_dbus() calls made on the handle
    outcome,         \* what the last property read returned or raised
    issued          \* the command lines the last start_dbus launched

vars == <<profile_file, resolv_conf, distro, op, err,
          platform, supplied, blacklist, distros, nextId, ret,
          listing, calls, log,
          registered, home, passwd, bus, cache, ran, reads, outcome, issued>>

distroVars == <<profile_file, resolv_conf, distro>>
managerVars == <<platform, supplied, blacklist, distros, nextId, ret>>
listingVars == <<listing>>
raceVars == <<calls, log>>
handleVars == <<registered, home, passwd, bus, cache, ran, reads, outcome, issued>>
\* the variables neither the profile editor nor the registry of well-formed
\* installations touches
otherVars == <<listingVars, raceVars, handleVars>>

\* no table under study
ListingIdle == listing = [versioned |-> TRUE, rows |-> <<>>]

\* no second handle at work
RaceIdle == calls = <<>> /\ log = <<>>

\* no cached property read
HandleIdle ==
    /\ registered = TRUE
    /\ home = <<>>
    /\ passwd = <<>>
    /\ bus = FALSE
    /\ cache = <<>>
    /\ ran = {}
    /\ reads = 0
    /\ outcome = [ok |-> TRUE, s |-> <<>>, err |-> ""]
    /\ issued = <<>>

-----------------------------------------------------------------------------
(* Bounds of the model. *)

\* lines of the initial ~/.profile
MaxLines == 2
\* longest profile text a call may be started on
MaxProfileLen == 26
\* distributions installed when the manager is constructed
MaxInstalled == 2
\* WSLDistro objects constructed in one run
MaxHandles == 4

-----------------------------------------------------------------------------
(* Code points. *)

LF == 10
CR == 13
SPACE == 32
BACKSLASH == 92

\* str.isspace() within Latin-1, which is what \s of a str pattern matches
Whitespace == {9, 10, 11, 12, 13, 28, 29, 30, 31, 32, 133, 160}
\* the line boundaries of str.splitlines() within Latin-1
LineBreaks == {10, 11, 12, 13, 28, 29, 30, 133}
OCTDIGITS == 48..55
DIGITS == 48..57
ASCIILETTERS == (65..90) \cup (97..122)

\* 'export '
S_export_sp == <<101, 120, 112, 111, 114, 116, 32>>
\* 'export'
S_export == <<101, 120, 112, 111, 114, 116>>
\* '='
S_eq == <<61>>
\* 'GDK_SCALE'
S_GDK_SCALE == <<71, 68, 75, 95, 83, 67, 65, 76, 69>>
\* 'QT_SCALE_FACTOR'
S_QT_SCALE_FACTOR == <<81, 84, 95, 83, 67, 65, 76, 69, 95, 70, 65, 67, 84, 79, 82>>
\* 'DISPLAY'
S_DISPLAY == <<68, 73, 83, 80, 76, 65, 89>>
\* 'GTK_THEME='
S_GTK_THEME_eq == <<71, 84, 75, 95, 84, 72, 69, 77, 69, 61>>
\* 'export GTK_THEME='
S_export_GTK_THEME_eq == <<101, 120, 112, 111, 114, 116, 32, 71, 84, 75, 95, 84, 72, 69, 77, 69, 61>>
\* 'GDK_SCALE=2'
S_GDK_SCALE_2 == <<71, 68, 75, 95, 83, 67, 65, 76, 69, 61, 50>>
\* 'QT_SCALE_FACTOR=2'
S_QT_SCALE_FACTOR_2 == <<81, 84, 95, 83, 67, 65, 76, 69, 95, 70, 65, 67, 84, 79, 82, 61, 50>>
\* 'Default'
S_Default == <<68, 101, 102, 97, 117, 108, 116>>
\* 'Arc'
S_Arc == <<65, 114, 99>>
\* ':0'
S_colon0 == <<58, 48>>
\* '/etc/init.d/dbus'
S_initd_dbus == <<47, 101, 116, 99, 47, 105, 110, 105, 116, 46, 100, 47, 100, 98, 117, 115>>
\* 'sudo /etc/init.d/dbus start'
S_sudo_dbus_start == <<115, 117, 100, 111, 32, 47, 101, 116, 99, 47, 105, 110, 105, 116, 46, 100, 47, 100, 98, 117, 115, 32, 115, 116, 97, 114, 116>>
\* 'nameserver'
S_nameserver == <<110, 97, 109, 101, 115, 101, 114, 118, 101, 114>>
\* '"'
S_quote == <<34>>

-----------------------------------------------------------------------------
(* str operations. *)

\* sub in s
Contains(sub, s) ==
    \E i \in 1..(Len(s) - Len(sub) + 1) : SubSeq(s, i, i + Len(sub) - 1) = sub

\* s.endswith(suffix)
EndsWith(s, suffix) ==
    /\ Len(suffix) <= Len(s)
    /\ SubSeq(s, Len(s) - Len(suffix) + 1, Len(s)) = suffix

\* s[i:] for a 1-based i
Tail_from(s, i) == SubSeq(s, i, Len(s))

\* end (exclusive) of the line that starts at i: the first line boundary at or after i
RECURSIVE line_end(_, _)
line_end(s, i) ==
    IF i > Len(s) \/ s[i] \in LineBreaks THEN i ELSE line_end(s, i + 1)

\* s.splitlines(): the lines without their boundaries; "\r\n" is one boundary and a
\* trailing boundary opens no further line
RECURSIVE splitlines_from(_, _)
splitlines_from(s, i) ==
    IF i > Len(s) THEN <<>>
    ELSE LET e == line_end(s, i)
             n == IF e < Len(s) /\ s[e] = CR /\ s[e + 1] = LF THEN e + 2 ELSE e + 1
         IN  <<SubSeq(s, i, e - 1)>> \o splitlines_from(s, n)

splitlines(s) == splitlines_from(s, 1)

\* first position at or after i that holds no whitespace
RECURSIVE skip_space(_, _)
skip_space(s, i) ==
    IF i <= Len(s) /\ s[i] \in Whitespace THEN skip_space(s, i + 1) ELSE i

\* s.split(): the maximal runs of non-whitespace
RECURSIVE word_end(_, _)
word_end(s, i) ==
    IF i > Len(s) \/ s[i] \in Whitespace THEN i ELSE word_end(s, i + 1)

RECURSIVE split_from(_, _)
split_from(s, i) ==
    LET b == skip_space(s, i)
    IN  IF b > Len(s) THEN <<>>
        ELSE LET e == word_end(s, b)
             IN  <<SubSeq(s, b, e - 1)>> \o split_from(s, e)

split(s) == split_from(s, 1)

\* str(n) of an int
RECURSIVE decimal(_)
decimal(n) ==
    IF n < 0 THEN <<45>> \o decimal(0 - n)
    ELSE IF n < 10 THEN <<48 + n>>
    ELSE decimal(n \div 10) \o <<48 + (n % 10)>>

\* the outcome of a call that returns a str or raises
Returned(s) == [ok |-> TRUE, s |-> s, err |-> ""]
Raised(e) == [ok |-> FALSE, s |-> <<>>, err |-> e]

-----------------------------------------------------------------------------
(* Path.read_text() / Path.write_text(): text mode with universal newlines,  *)
(* on the Windows host the tool runs on (os.linesep is "\r\n").             *)

\* what write_text(text) stores: every "\n" is written as "\r\n"
RECURSIVE write_text(_)
write_text(text) ==
    IF text = <<>> THEN <<>>
    ELSE (IF Head(text) = LF THEN <<CR, LF>> ELSE <<Head(text)>>)
         \o write_text(Tail(text))

\* what read_text() returns for the stored data: "\r\n" and a lone "\r" read as "\n"
RECURSIVE read_text_from(_, _)
read_text_from(data, i) ==
    IF i > Len(data) THEN <<>>
    ELSE IF data[i] = CR
         THEN <<LF>> \o read_text_from(data,
                  IF i < Len(data) /\ data[i + 1] = LF THEN i + 2 ELSE i + 1)
         ELSE <<data[i]>> \o read_text_from(data, i + 1)

read_text(data) == read_text_from(data, 1)

\* WSLDistro.profile (getter): "" when the file does not exist
profile_of(file) == IF file.exists THEN read_text(file.data) ELSE <<>>

\* WSLDistro.profile (setter): the file after the write
profile_written(value) == [exists |-> TRUE, data |-> write_text(value)]

\* the profile text as the handle reads it now
profile == profile_of(profile_file)

-----------------------------------------------------------------------------
(* re: the two patterns of the source, compiled with re.MULTILINE, and       *)
(* Pattern.sub(repl, string).                                               *)

Bol == [k |-> "bol", s |-> <<>>]
WsStar == [k |-> "ws*", s |-> <<>>]
WsPlus == [k |-> "ws+", s |-> <<>>]
DotStar == [k |-> "dot*", s |-> <<>>]
Lit(s) == [k |-> "lit", s |-> s]

\* re.compile(f"^\\s*export\\s+{variable}\\s*=.*", re.MULTILINE)
export_regex(variable) ==
    <<Bol, WsStar, Lit(S_export), WsPlus, Lit(variable), WsStar, Lit(S_eq), DotStar>>

\* re.compile(r"^\s*export GTK_THEME=.*", re.MULTILINE)
theme_regex == <<Bol, WsStar, Lit(S_export_GTK_THEME_eq), DotStar>>

\* first position at or after i that holds "\n": where a greedy .* stops
RECURSIVE skip_dot(_, _)
skip_dot(s, i) ==
    IF i <= Len(s) /\ s[i] # LF THEN skip_dot(s, i + 1) ELSE i

\* The position after the match of pat[k..] that starts at i, 0 when there is none.
\* The greedy runs need no backtracking in these patterns: every \s* and \s+ is
\* followed by a literal that starts with a non-space, and .* comes last.
RECURSIVE match_at(_, _, _, _)
match_at(pat, k, s, i) ==
    IF k > Len(pat) THEN i
    ELSE LET e == pat[k]
         IN  CASE e.k = "bol" ->
                    IF i = 1 \/ s[i - 1] = LF THEN match_at(pat, k + 1, s, i) ELSE 0
               [] e.k = "lit" ->
                    IF /\ i + Len(e.s) - 1 <= Len(s)
                       /\ SubSeq(s, i, i + Len(e.s) - 1) = e.s
                    THEN match_at(pat, k + 1, s, i + Len(e.s)) ELSE 0
               [] e.k = "ws*" -> match_at(pat, k + 1, s, skip_space(s, i))
               [] e.k = "ws+" ->
                    IF i <= Len(s) /\ s[i] \in Whitespace
                    THEN match_at(pat, k + 1, s, skip_space(s, i)) ELSE 0
               [] e.k = "dot*" -> match_at(pat, k + 1, s, skip_dot(s, i))

prepend(prefix, r) == IF r.ok THEN [r EXCEPT !.s = prefix \o r.s] ELSE r

\* n octal digits starting at i, as a number
RECURSIVE octal(_, _, _)
octal(s, i, n) ==
    IF n = 0 THEN 0 ELSE 8 * octal(s, i, n - 1) + (s[i + n - 1] - 48)

\* re._parser.parse_template followed by expand_template, for a pattern without
\* groups: the replacement text for one match m, or the error the template raises.
\* Of the group references only \g<0> (the whole match) is valid.
RECURSIVE expand_template(_, _, _)
expand_template(source, i, m) ==
    IF i > Len(source) THEN Returned(<<>>)
    ELSE IF source[i] # BACKSLASH
    THEN prepend(<<source[i]>>, expand_template(source, i + 1, m))
    ELSE IF i = Len(source) THEN Raised("re.error")
    ELSE LET c == source[i + 1]
             at(j) == IF j <= Len(source) THEN source[j] ELSE 0
         IN  CASE c = 103 ->                         \* \g<name>
                    IF at(i + 2) = 60 /\ at(i + 3) = 48 /\ at(i + 4) = 62
                    THEN prepend(m, expand_template(source, i + 5, m))
                    ELSE Raised("re.error")
               [] c = 48 ->                          \* \0, \0o, \0oo
                    LET n == IF at(i + 2) \in OCTDIGITS
                             THEN (IF at(i + 3) \in OCTDIGITS THEN 3 ELSE 2)
                             ELSE 1
                    IN  prepend(<<octal(source, i + 1, n) % 256>>,
                                expand_template(source, i + 1 + n, m))
               [] c \in DIGITS \ {48} ->             \* \ooo, or a group that is not there
                    IF /\ c \in OCTDIGITS
                       /\ at(i + 2) \in OCTDIGITS
                       /\ at(i + 3) \in OCTDIGITS
                       /\ octal(source, i + 1, 3) <= 255
                    THEN prepend(<<octal(source, i + 1, 3)>>,
                                 expand_template(source, i + 4, m))
                    ELSE Raised("re.error")
               [] c = 97 -> prepend(<<7>>, expand_template(source, i + 2, m))
               [] c = 98 -> prepend(<<8>>, expand_template(source, i + 2, m))
               [] c = 102 -> prepend(<<12>>, expand_template(source, i + 2, m))
               [] c = 110 -> prepend(<<10>>, expand_template(source, i + 2, m))
               [] c = 114 -> prepend(<<13>>, expand_template(source, i + 2, m))
               [] c = 116 -> prepend(<<9>>, expand_template(source, i + 2, m))
               [] c = 118 -> prepend(<<11>>, expand_template(source, i + 2, m))
               [] c = BACKSLASH -> prepend(<<BACKSLASH>>, expand_template(source, i + 2, m))
               [] OTHER ->
                    IF c \in ASCIILETTERS THEN Raised("re.error")
                    ELSE prepend(<<BACKSLASH, c>>, expand_template(source, i + 2, m))

\* string with every match of pat, scanning from i, replaced by the expansion of repl
RECURSIVE sub_from(_, _, _, _)
sub_from(pat, repl, string, i) ==
    IF i > Len(string) THEN <<>>
    ELSE LET e == match_at(pat, 1, string, i)
         IN  IF e = 0
             THEN <<string[i]>> \o sub_from(pat, repl, string, i + 1)
             ELSE expand_template(repl, 1, SubSeq(string, i, e - 1)).s
                  \o sub_from(pat, repl, string, e)

\* pat.sub(repl, string): the template is compiled, and raises, before any match is
\* looked for
re_sub(pat, repl, string) ==
    IF ~expand_template(repl, 1, <<>>).ok THEN Raised("re.error")
    ELSE Returned(sub_from(pat, repl, string, 1))

-----------------------------------------------------------------------------
(* WSLDistro: the profile editor and the accessors built on it. *)

\* WSLDistro._edit_profile_export: the text written to the profile, or the error
_edit_profile_export(text, variable, value) ==
    LET new_line == S_export_sp \o variable \o S_eq \o value
    IN  IF ~Contains(S_export_sp \o variable, text)
        THEN Returned((IF EndsWith(text, <<LF>>) THEN text ELSE text \o <<LF>>)
                      \o new_line \o <<LF>>)
        ELSE re_sub(export_regex(variable), text, new_line)

\* s.split(sep)[-1]: what follows the last occurrence of sep
after_last(sep, s) ==
    LET hits == {i \in 1..(Len(s) - Len(sep) + 1) : SubSeq(s, i, i + Len(sep) - 1) = sep}
    IN  IF hits = {} THEN s
        ELSE LET i == CHOOSE h \in hits : \A g \in hits : g <= h
             IN  Tail_from(s, i + Len(sep))

\* WSLDistro.theme (getter)
theme(text) ==
    LET lines == splitlines(text)
        found == {i \in 1..Len(lines) : Contains(S_GTK_THEME_eq, lines[i])}
    IN  IF found = {} THEN S_Default
        ELSE after_last(S_GTK_THEME_eq,
                        lines[CHOOSE i \in found : \A j \in found : i <= j])

\* WSLDistro.theme (setter): the text written to the profile, or the error
theme_setter(text, value) ==
    LET new_line == IF value # S_Default
                    THEN S_export_GTK_THEME_eq \o S_quote \o value \o S_quote
                    ELSE <<>>
    IN  IF ~Contains(S_export_GTK_THEME_eq, text)
        THEN Returned(text \o new_line \o <<LF>>)
        ELSE re_sub(theme_regex, text, new_line)

\* WSLDistro.gtk_scale (getter)
gtk_scale(text) == IF Contains(S_GDK_SCALE_2, text) THEN 2 ELSE 1

\* WSLDistro.qt_scale (getter)
qt_scale(text) == IF Contains(S_QT_SCALE_FACTOR_2, text) THEN 2 ELSE 1

\* scale_allowed with the upper end of the range forgotten
scale_allowed_lower_only(scale) == scale >= 1

\* the check both scale setters make before they edit: scale not in [1, 2]
scale_allowed(scale) == scale \in {1, 2}

\* WSLDistro.ip: the value, or the error
ip(resolv) ==
    LET lines == splitlines(resolv)
        found == {i \in 1..Len(lines) : Contains(S_nameserver, lines[i])}
    IN  IF found = {} THEN Raised("ValueError")
        ELSE LET words == split(lines[CHOOSE i \in found : \A j \in found : i <= j])
             IN  IF Len(words) < 2 THEN Raised("IndexError")
                 ELSE Returned(words[2])

\* WSLDistro.set_dbus: the text written, or the text as it is when nothing is written
set_dbus(text) ==
    IF ~Contains(S_initd_dbus, text)
    THEN text \o <<LF>> \o S_sudo_dbus_start \o <<LF>>
    ELSE text

-----------------------------------------------------------------------------
(* The profiles, resolver files and arguments the calls are tried on. *)

\* 'export GDK_SCALE=1'
L_gdk1 == <<101, 120, 112, 111, 114, 116, 32, 71, 68, 75, 95, 83, 67, 65, 76, 69, 61, 49>>
\* 'export GTK_THEME=Arc'
L_theme == <<101, 120, 112, 111, 114, 116, 32, 71, 84, 75, 95, 84, 72, 69, 77, 69, 61, 65, 114, 99>>
\* 'x=1'
L_alias == <<120, 61, 49>>
\* 'x=\\' (two backslashes)
L_bs == <<120, 61, 92, 92>>
\* 'y=\u'
L_ps1 == <<121, 61, 92, 117>>

LinePool == {L_gdk1, L_theme, L_alias, L_bs, L_ps1}

\* the texts of at most n lines of the pool, each line ended by "\n"
RECURSIVE line_texts(_)
line_texts(n) ==
    IF n = 0 THEN {<<>>}
    ELSE LET shorter == line_texts(n - 1)
         IN  shorter \cup {t \o l \o <<LF>> : t \in shorter, l \in LinePool}

\* ... and the same texts with the last "\n" missing
InitTexts ==
    LET ended == line_texts(MaxLines)
    IN  ended \cup {SubSeq(t, 1, Len(t) - 1) : t \in ended \ {<<>>}}

\* a profile written by the tools of the distribution is stored as it reads; a
\* distribution that was never logged into has none
InitProfiles ==
    {[exists |-> FALSE, data |-> <<>>]} \cup {[exists |-> TRUE, data |-> t] : t \in InitTexts}

\* 'nameserver 1.2\n'
R_nameserver == <<110, 97, 109, 101, 115, 101, 114, 118, 101, 114, 32, 49, 46, 50, 10>>
\* '# off\n'
R_none == <<35, 32, 111, 102, 102, 10>>

ResolvPool == {R_nameserver, R_none}

\* the scales assigned to gtk_scale and qt_scale
ScaleInputs == 0..3
\* the themes assigned to theme
ThemeInputs == {S_Default, S_Arc}

\* 'alpine-base'
N_alpine_base == <<97, 108, 112, 105, 110, 101, 45, 98, 97, 115, 101>>

-----------------------------------------------------------------------------
(* The calls on a handle. *)

Call(name, variable, value, arg) ==
    [name |-> name, variable |-> variable, value |-> value, arg |-> arg]

\* self.profile = r.s when the edit returned, the exception and no write otherwise
write_or_raise(r) ==
    IF r.ok
    THEN profile_file' = profile_written(r.s) /\ err' = ""
    ELSE err' = r.err /\ UNCHANGED profile_file

\* distro.gtk_scale = scale
gtk_scale_setter(scale) ==
    /\ Len(profile) <= MaxProfileLen
    /\ op' = Call("gtk_scale", S_GDK_SCALE, decimal(scale), scale)
    /\ IF ~scale_allowed(scale)
       THEN err' = "ValueError" /\ UNCHANGED profile_file
       ELSE write_or_raise(_edit_profile_export(profile, S_GDK_SCALE, decimal(scale)))
    /\ UNCHANGED <<resolv_conf, distro, managerVars, otherVars>>

\* distro.qt_scale = scale
qt_scale_setter(scale) ==
    /\ Len(profile) <= MaxProfileLen
    /\ op' = Call("qt_scale", S_QT_SCALE_FACTOR, decimal(scale), scale)
    /\ IF ~scale_allowed(scale)
       THEN err' = "ValueError" /\ UNCHANGED profile_file
       ELSE write_or_raise(_edit_profile_export(profile, S_QT_SCALE_FACTOR, decimal(scale)))
    /\ UNCHANGED <<resolv_conf, distro, managerVars, otherVars>>

\* distro.set_display()
set_display ==
    /\ Len(profile) <= MaxProfileLen
    /\ LET host == IF distro.version = 2 THEN ip(resolv_conf) ELSE Returned(<<>>)
       IN  IF ~host.ok
           THEN /\ op' = Call("set_display", S_DISPLAY, <<>>, 0)
                /\ err' = host.err
                /\ UNCHANGED profile_file
           ELSE /\ op' = Call("set_display", S_DISPLAY, host.s \o S_colon0, 0)
                /\ write_or_raise(_edit_profile_export(profile, S_DISPLAY, host.s \o S_colon0))
    /\ UNCHANGED <<resolv_conf, distro, managerVars, otherVars>>

\* distro.theme = value
theme_set(value) ==
    /\ Len(profile) <= MaxProfileLen
    /\ op' = Call("theme", <<>>, value, 0)
    /\ write_or_raise(theme_setter(profile, value))
    /\ UNCHANGED <<resolv_conf, distro, managerVars, otherVars>>

\* distro.set_dbus()
dbus_set ==
    /\ Len(profile) <= MaxProfileLen
    /\ op' = Call("set_dbus", <<>>, <<>>, 0)
    /\ err' = ""
    /\ IF ~Contains(S_initd_dbus, profile)
       THEN profile_file' = profile_written(set_dbus(profile))
       ELSE UNCHANGED profile_file
    /\ UNCHANGED <<resolv_conf, distro, managerVars, otherVars>>

DistroInit ==
    /\ profile_file \in InitProfiles
    /\ resolv_conf \in ResolvPool
    /\ distro \in [name : {N_alpine_base}, version : {1, 2}]
    /\ op = Call("", <<>>, <<>>, 0)
    /\ err = ""
    /\ platform = <<>>
    /\ supplied = [given |-> FALSE, list |-> <<>>]
    /\ blacklist = <<>>
    /\ distros = <<>>
    /\ nextId = 0
    /\ ret = [id |-> 0, name |-> <<>>, version |-> 0]
    /\ ListingIdle
    /\ RaceIdle
    /\ HandleIdle

DistroNext ==
    \/ \E scale \in ScaleInputs : gtk_scale_setter(scale)
    \/ \E scale \in ScaleInputs : qt_scale_setter(scale)
    \/ \E value \in ThemeInputs : theme_set(value)
    \/ set_display
    \/ dbus_set

DistroSpec == DistroInit /\ [][DistroNext]_vars

-----------------------------------------------------------------------------
(* WSLManager: the listing of `wsl.exe -l -v` and its parsing. *)

\* 'docker'
S_docker == <<100, 111, 99, 107, 101, 114>>
\* 'NAME'
S_NAME == <<78, 65, 77, 69>>
\* 'STATE'
S_STATE == <<83, 84, 65, 84, 69>>
\* 'VERSION'
S_VERSION == <<86, 69, 82, 83, 73, 79, 78>>
\* 'Stopped'
S_Stopped == <<83, 116, 111, 112, 112, 101, 100>>
\* two spaces: the marker of a row that is not the default distribution, and the
\* least gap between two columns
S_gap == <<SPACE, SPACE>>
\* '* ': the marker of the default distribution
S_default_marker == <<42, SPACE>>

\* the version import_distro passes when the caller gives none
DEFAULT_VERSION == 2

\* The text `wsl.exe -l -v` prints for the installed rows, once decoded: a header,
\* then per distribution a two-character marker, the name, the state and the version.
RECURSIVE wsl_rows(_, _)
wsl_rows(rows, i) ==
    IF i > Len(rows) THEN <<>>
    ELSE (IF i = 1 THEN S_default_marker ELSE S_gap)
         \o rows[i].name \o S_gap \o S_Stopped \o S_gap \o decimal(rows[i].version)
         \o <<LF>> \o wsl_rows(rows, i + 1)

wsl_list(rows) ==
    S_gap \o S_NAME \o S_gap \o S_STATE \o S_gap \o S_VERSION \o <<LF>> \o wsl_rows(rows, 1)

\* One row of csv.reader(delimiter=" ", skipinitialspace=True), read from position i
\* where a field starts: the spaces before a field are skipped, a field runs to the
\* next space, and a line that ends where a field starts yields a last empty field.
RECURSIVE csv_fields(_, _)
csv_fields(line, i) ==
    LET b == IF i <= Len(line) /\ line[i] = SPACE
             THEN CHOOSE j \in i..(Len(line) + 1) :
                      /\ \A k \in i..(j - 1) : line[k] = SPACE
                      /\ (j > Len(line) \/ line[j] # SPACE)
             ELSE i
    IN  IF b > Len(line) THEN << <<>> >>
        ELSE LET ends == {j \in b..Len(line) : line[j] = SPACE}
                 e == IF ends = {} THEN Len(line) + 1
                      ELSE CHOOSE j \in ends : \A k \in ends : j <= k
             IN  IF e > Len(line) THEN <<SubSeq(line, b, e - 1)>>
                 ELSE <<SubSeq(line, b, e - 1)>> \o csv_fields(line, e + 1)

\* the row csv.reader yields for a line: none for an empty line
csv_row(line) == IF line = <<>> THEN <<>> ELSE csv_fields(line, 1)

\* lines = [line[2:] for line in result if line]
RECURSIVE stripped_lines(_, _)
stripped_lines(result, i) ==
    IF i > Len(result) THEN <<>>
    ELSE (IF result[i] # <<>> THEN <<Tail_from(result[i], 3)>> ELSE <<>>)
         \o stripped_lines(result, i + 1)

\* machine.get(key) of csv.DictReader: the field under the last column named key;
\* "none" when the row is too short (restval), "absent" when no column is named key
machine_get(fieldnames, row, key) ==
    LET cols == {i \in 1..Len(fieldnames) : fieldnames[i] = key}
    IN  IF cols = {} THEN [kind |-> "absent", s |-> <<>>]
        ELSE LET c == CHOOSE i \in cols : \A j \in cols : j <= i
             IN  IF c > Len(row) THEN [kind |-> "none", s |-> <<>>]
                 ELSE [kind |-> "str", s |-> row[c]]

\* the value of a run of decimal digits
RECURSIVE digits_value(_, _)
digits_value(s, n) ==
    IF n = 0 THEN 0 ELSE 10 * digits_value(s, n - 1) + (s[n] - 48)

\* int(machine.get("VERSION", 1)): the number, or the error int() raises
int_version(field) ==
    CASE field.kind = "absent" -> [ok |-> TRUE, n |-> 1, err |-> ""]
      [] field.kind = "none" -> [ok |-> FALSE, n |-> 0, err |-> "TypeError"]
      [] OTHER ->
            LET s == field.s
                signed == s # <<>> /\ s[1] \in {43, 45}
                d == IF signed THEN Tail(s) ELSE s
            IN  IF d # <<>> /\ \A i \in 1..Len(d) : d[i] \in DIGITS
                THEN [ok |-> TRUE,
                      n |-> IF signed /\ s[1] = 45 THEN 0 - digits_value(d, Len(d))
                            ELSE digits_value(d, Len(d)),
                      err |-> ""]
                ELSE [ok |-> FALSE, n |-> 0, err |-> "ValueError"]

\* listed with the blacklist compared for equality instead of containment
listed_unless_equal(field, bl) ==
    /\ field.kind = "str"
    /\ field.s # <<>>
    /\ \A i \in 1..Len(bl) : bl[i] # field.s

\* name and all(b not in name for b in self._blacklist)
listed(field, bl) ==
    /\ field.kind = "str"
    /\ field.s # <<>>
    /\ \A i \in 1..Len(bl) : ~Contains(bl[i], field.s)

\* WSLDistro(name, version): a new object
WSLDistro(id, name, version) == [id |-> id, name |-> name, version |-> version]

\* self._distros[name] = handle
with_item(d, name, handle) ==
    [n \in DOMAIN d \cup {name} |-> IF n = name THEN handle ELSE d[n]]

\* the loop of _get_machines over the rows from the i-th on: the dictionary and the
\* object count it ends with, and the error that ended it early
RECURSIVE machines_from(_, _, _, _, _, _)
machines_from(fieldnames, rows, i, bl, d, id) ==
    IF i > Len(rows) THEN [distros |-> d, nextId |-> id, err |-> ""]
    ELSE IF rows[i] = <<>> THEN machines_from(fieldnames, rows, i + 1, bl, d, id)
    ELSE LET name == machine_get(fieldnames, rows[i], S_NAME)
         IN  IF ~listed(name, bl)
             THEN machines_from(fieldnames, rows, i + 1, bl, d, id)
             ELSE LET v == int_version(machine_get(fieldnames, rows[i], S_VERSION))
                  IN  IF ~v.ok THEN [distros |-> d, nextId |-> id, err |-> v.err]
                      ELSE machines_from(fieldnames, rows, i + 1, bl,
                               with_item(d, name.s, WSLDistro(id, name.s, v.n)), id + 1)

\* WSLManager._get_machines on the text the list command printed
_get_machines(stdout, bl, d, id) ==
    LET lines == stripped_lines(splitlines(stdout), 1)
        rows == [i \in 1..Len(lines) |-> csv_row(lines[i])]
    IN  IF rows = <<>> THEN [distros |-> d, nextId |-> id, err |-> ""]
        ELSE machines_from(rows[1], rows, 2, bl, d, id)

\* self._blacklist = blacklist or ["docker"]
effective_blacklist(arg) ==
    IF arg.given /\ arg.list # <<>> THEN arg.list ELSE <<S_docker>>

\* version_param with the caller's version dropped
version_param_ignored(args) == DEFAULT_VERSION

\* the version parameter of import_distro, 2 when the caller gives none
version_param(args) == IF args = <<>> THEN DEFAULT_VERSION ELSE args[1]

\* WSLManager.names
names == DOMAIN distros

-----------------------------------------------------------------------------
(* The installations, blacklists and arguments the manager is tried on. *)

\* 'docker-desktop'
N_docker_desktop == <<100, 111, 99, 107, 101, 114, 45, 100, 101, 115, 107, 116, 111, 112>>
\* 'Docker-Desktop'
N_Docker_Desktop == <<68, 111, 99, 107, 101, 114, 45, 68, 101, 115, 107, 116, 111, 112>>
\* 'Ubuntu-20.04'
N_Ubuntu == <<85, 98, 117, 110, 116, 117, 45, 50, 48, 46, 48, 52>>
\* 'Ubuntu'
S_Ubuntu == <<85, 98, 117, 110, 116, 117>>

Installed(name, version) == [name |-> name, version |-> version]

InstalledPool ==
    {Installed(N_docker_desktop, 2), Installed(N_Docker_Desktop, 2),
     Installed(N_Ubuntu, 1), Installed(N_Ubuntu, 2)}

installed_names(rows) == {rows[i].name : i \in 1..Len(rows)}

\* the installations of at most n distributions, each name once
RECURSIVE installations(_)
installations(n) ==
    IF n = 0 THEN {<<>>}
    ELSE LET fewer == installations(n - 1)
         IN  fewer \cup UNION {{Append(q, r) :
                                   r \in {x \in InstalledPool : x.name \notin installed_names(q)}} :
                               q \in fewer}

\* WSLManager(), WSLManager([]) and WSLManager(["Ubuntu"])
BlacklistArgs ==
    {[given |-> FALSE, list |-> <<>>],
     [given |-> TRUE, list |-> <<>>],
     [given |-> TRUE, list |-> <<S_Ubuntu>>]}

ImportNames == {N_alpine_base, N_docker_desktop}
\* import_distro(name, tarball, workdir) and import_distro(name, tarball, workdir, 1)
ImportVersionArgs == {<<>>, <<1>>}

-----------------------------------------------------------------------------
(* The calls on the manager. *)

ManagerCall(name, distribution, args, succeeded) ==
    [name |-> name, distribution |-> distribution, args |-> args, succeeded |-> succeeded]

NoHandle == [id |-> 0, name |-> <<>>, version |-> 0]

\* WSLManager.refresh
refresh ==
    /\ nextId + Len(platform) <= MaxHandles + 1
    /\ LET r == _get_machines(wsl_list(platform), blacklist, <<>>, nextId)
       IN  /\ distros' = r.distros
           /\ nextId' = r.nextId
           /\ err' = r.err
    /\ op' = ManagerCall("refresh", <<>>, <<>>, TRUE)
    /\ UNCHANGED <<platform, supplied, blacklist, ret, distroVars, otherVars>>

\* WSLManager.import_distro: `wsl.exe --import` registers the distribution or fails
\* (it fails for a name that is registered already), and the outcome is not looked at
import_distro(name, args, succeeded) ==
    /\ nextId <= MaxHandles
    /\ succeeded => name \notin installed_names(platform)
    /\ platform' = IF succeeded
                   THEN Append(platform, Installed(name, version_param(args)))
                   ELSE platform
    /\ distros' = with_item(distros, name, WSLDistro(nextId, name, version_param(args)))
    /\ ret' = distros'[name]
    /\ nextId' = nextId + 1
    /\ err' = ""
    /\ op' = ManagerCall("import_distro", name, args, succeeded)
    /\ UNCHANGED <<supplied, blacklist, distroVars, otherVars>>

\* the manager as WSLManager(blacklist) leaves it
ManagerInit ==
    /\ platform \in installations(MaxInstalled)
    /\ supplied \in BlacklistArgs
    /\ blacklist = effective_blacklist(supplied)
    /\ LET r == _get_machines(wsl_list(platform), blacklist, <<>>, 1)
       IN  /\ distros = r.distros
           /\ nextId = r.nextId
           /\ err = r.err
    /\ ret = NoHandle
    /\ op = ManagerCall("__init__", <<>>, <<>>, TRUE)
    /\ profile_file = [exists |-> FALSE, data |-> <<>>]
    /\ resolv_conf = R_nameserver
    /\ distro = [name |-> N_alpine_base, version |-> 2]
    /\ ListingIdle
    /\ RaceIdle
    /\ HandleIdle

ManagerNext ==
    \/ refresh
    \/ \E name \in ImportNames, args \in ImportVersionArgs, succeeded \in BOOLEAN :
           import_distro(name, args, succeeded)

ManagerSpec == ManagerInit /\ [][ManagerNext]_vars

-----------------------------------------------------------------------------
(* WSLManager on tables whose rows may lack the VERSION field or carry one that  *)
(* is no number, and on tables printed without the VERSION column.               *)

\* 'x': a VERSION field that is no number
S_x == <<120>>
\* '1'
S_1 == <<49>>
\* '2'
S_2 == <<50>>

\* a row of the table: the name and the VERSION field, when the row has one
Row(name, has_version, version) ==
    [name |-> name, has_version |-> has_version, version |-> version]

RowPool ==
    {Row(N_Ubuntu, TRUE, S_2), Row(N_docker_desktop, TRUE, S_2),
     Row(N_docker_desktop, FALSE, <<>>), Row(N_alpine_base, TRUE, S_1),
     Row(N_alpine_base, TRUE, S_x), Row(N_alpine_base, FALSE, <<>>)}

\* the tables of at most n rows, each name once
RECURSIVE tables(_)
tables(n) ==
    IF n = 0 THEN {<<>>}
    ELSE LET fewer == tables(n - 1)
         IN  fewer \cup UNION {{Append(q, r) :
                                   r \in {x \in RowPool : x.name \notin installed_names(q)}} :
                               q \in fewer}

\* the rows of the table as printed: the VERSION field only where the table has the
\* column and the row has the field
RECURSIVE listing_rows(_, _, _)
listing_rows(versioned, rows, i) ==
    IF i > Len(rows) THEN <<>>
    ELSE (IF i = 1 THEN S_default_marker ELSE S_gap)
         \o rows[i].name \o S_gap \o S_Stopped
         \o (IF versioned /\ rows[i].has_version THEN S_gap \o rows[i].version ELSE <<>>)
         \o <<LF>> \o listing_rows(versioned, rows, i + 1)

\* the text of the table, once decoded
listing_text(l) ==
    S_gap \o S_NAME \o S_gap \o S_STATE
    \o (IF l.versioned THEN S_gap \o S_VERSION ELSE <<>>)
    \o <<LF>> \o listing_rows(l.versioned, l.rows, 1)

\* a manager object exists: its blacklist is never empty
constructed == blacklist # <<>>

\* WSLManager(blacklist) on the table: no object is left when _get_machines raises
WSLManager_init(arg) ==
    /\ ~constructed
    /\ nextId + Len(listing.rows) <= MaxHandles + 1
    /\ LET r == _get_machines(listing_text(listing), effective_blacklist(arg), <<>>, nextId)
       IN  /\ distros' = (IF r.err = "" THEN r.distros ELSE <<>>)
           /\ blacklist' = (IF r.err = "" THEN effective_blacklist(arg) ELSE <<>>)
           /\ nextId' = r.nextId
           /\ err' = r.err
    /\ supplied' = arg
    /\ op' = ManagerCall("__init__", <<>>, <<>>, TRUE)
    /\ UNCHANGED <<platform, ret, listing, distroVars, raceVars, handleVars>>

\* WSLManager.refresh on the table: the dictionary is cleared, then filled up to the
\* row that raises
refresh_table ==
    /\ constructed
    /\ nextId + Len(listing.rows) <= MaxHandles + 1
    /\ LET r == _get_machines(listing_text(listing), blacklist, <<>>, nextId)
       IN  /\ distros' = r.distros
           /\ nextId' = r.nextId
           /\ err' = r.err
    /\ op' = ManagerCall("refresh", <<>>, <<>>, TRUE)
    /\ UNCHANGED <<platform, supplied, blacklist, ret, listing, distroVars, raceVars, handleVars>>

\* a distribution is installed behind the manager's back: the table gains a row
install_row(row) ==
    /\ Len(listing.rows) < MaxInstalled
    /\ row.name \notin installed_names(listing.rows)
    /\ listing' = [listing EXCEPT !.rows = Append(@, row)]
    /\ op' = ManagerCall("install", row.name, <<>>, TRUE)
    /\ UNCHANGED <<err, managerVars, distroVars, raceVars, handleVars>>

\* before the manager is constructed
EnumerationInit ==
    /\ listing \in [versioned : BOOLEAN, rows : tables(MaxInstalled)]
    /\ platform = <<>>
    /\ supplied = [given |-> FALSE, list |-> <<>>]
    /\ blacklist = <<>>
    /\ distros = <<>>
    /\ nextId = 1
    /\ ret = NoHandle
    /\ op = ManagerCall("", <<>>, <<>>, TRUE)
    /\ err = ""
    /\ profile_file = [exists |-> FALSE, data |-> <<>>]
    /\ resolv_conf = R_nameserver
    /\ distro = [name |-> N_alpine_base, version |-> 2]
    /\ RaceIdle
    /\ HandleIdle

EnumerationNext ==
    \/ \E arg \in BlacklistArgs : WSLManager_init(arg)
    \/ refresh_table
    \/ \E row \in RowPool : install_row(row)

EnumerationSpec == EnumerationInit /\ [][EnumerationNext]_vars

-----------------------------------------------------------------------------
(* Two handles of one distribution, each in _edit_profile_export: the profile is *)
(* read whole, then written whole (write_text opens the file, which empties it,  *)
(* and stores the text when it closes it), with nothing held in between.         *)

\* set_export calls one handle makes
MaxCalls == 1

\* the two handles: the first assigns gtk_scale, the second qt_scale
Handles == {1, 2}
handle_variable(h) == IF h = 1 THEN S_GDK_SCALE ELSE S_QT_SCALE_FACTOR
handle_call(h) == IF h = 1 THEN "gtk_scale" ELSE "qt_scale"

\* the profiles the two handles start on: at most one line, ended or not
RaceProfiles ==
    {[exists |-> FALSE, data |-> <<>>]}
    \cup {[exists |-> TRUE, data |-> t] :
              t \in line_texts(1) \cup {l : l \in LinePool}}

NoCall == [pc |-> "idle", value |-> 0, profile |-> <<>>, read_at |-> 0]

calls_ended(h) == Cardinality({i \in 1..Len(log) : log[i].handle = h})

ended_call(h, e) ==
    [handle |-> h, value |-> calls[h].value, profile |-> calls[h].profile,
     read_at |-> calls[h].read_at, err |-> e]

\* edit_of_read with the profile read again where the text is needed: the edit made
\* on the profile as it is now
edit_of_current(h) ==
    _edit_profile_export(profile, handle_variable(h), decimal(calls[h].value))

\* what the handle stores: the edit made on the text it read at line 324
edit_of_read(h) ==
    _edit_profile_export(calls[h].profile, handle_variable(h), decimal(calls[h].value))

\* the setter is entered with an allowed scale and line 324 reads the profile
read_profile(h, scale) ==
    /\ calls[h].pc = "idle"
    /\ calls_ended(h) < MaxCalls
    /\ scale_allowed(scale)
    /\ calls' = [calls EXCEPT ![h] = [pc |-> "read", value |-> scale,
                                      profile |-> profile, read_at |-> Len(log)]]
    /\ UNCHANGED <<log, op, err, distroVars, managerVars, listingVars, handleVars>>

\* lines 325-333 up to the opening of the file by write_text; the call ends here when
\* regex.sub raises
open_profile(h) ==
    /\ calls[h].pc = "read"
    /\ LET r == edit_of_read(h)
       IN  IF r.ok
           THEN /\ profile_file' = [exists |-> TRUE, data |-> <<>>]
                /\ calls' = [calls EXCEPT ![h].pc = "opened"]
                /\ UNCHANGED <<log, op, err>>
           ELSE /\ calls' = [calls EXCEPT ![h].pc = "idle"]
                /\ log' = Append(log, ended_call(h, r.err))
                /\ op' = Call(handle_call(h), handle_variable(h),
                              decimal(calls[h].value), calls[h].value)
                /\ err' = r.err
                /\ UNCHANGED profile_file
    /\ UNCHANGED <<resolv_conf, distro, managerVars, listingVars, handleVars>>

\* write_text stores the text and closes the file; the call returns
store_profile(h) ==
    /\ calls[h].pc = "opened"
    /\ profile_file' = profile_written(edit_of_read(h).s)
    /\ calls' = [calls EXCEPT ![h].pc = "idle"]
    /\ log' = Append(log, ended_call(h, ""))
    /\ op' = Call(handle_call(h), handle_variable(h),
                  decimal(calls[h].value), calls[h].value)
    /\ err' = ""
    /\ UNCHANGED <<resolv_conf, distro, managerVars, listingVars, handleVars>>

RaceInit ==
    /\ profile_file \in RaceProfiles
    /\ resolv_conf = R_nameserver
    /\ distro = [name |-> N_alpine_base, version |-> 2]
    /\ op = Call("", <<>>, <<>>, 0)
    /\ err = ""
    /\ platform = <<>>
    /\ supplied = [given |-> FALSE, list |-> <<>>]
    /\ blacklist = <<>>
    /\ distros = <<>>
    /\ nextId = 0
    /\ ret = [id |-> 0, name |-> <<>>, version |-> 0]
    /\ ListingIdle
    /\ calls = [h \in Handles |-> NoCall]
    /\ log = <<>>
    /\ HandleIdle

RaceNext ==
    \/ \E h \in Handles, scale \in ScaleInputs : read_profile(h, scale)
    \/ \E h \in Handles : open_profile(h)
    \/ \E h \in Handles : store_profile(h)

RaceSpec == RaceInit /\ [][RaceNext]_vars

-----------------------------------------------------------------------------
(* One WSLDistro object: its cached properties, the commands they run inside the *)
(* distribution, remove() and start_dbus().                                      *)

\* property reads and start_dbus() calls made on one handle; what happens to the
\* distribution after the last of them is seen by nobody and is left out
MaxAccesses == 2

\* '/'
S_slash == <<47>>
\* '~'
S_tilde == <<126>>
\* '~/.profile'
S_tilde_profile == <<126, 47, 46, 112, 114, 111, 102, 105, 108, 101>>
\* '/etc/resolv.conf'
S_etc_resolv_conf == <<47, 101, 116, 99, 47, 114, 101, 115, 111, 108, 118, 46, 99, 111, 110, 102>>
\* '.profile'
S_dot_profile == <<46, 112, 114, 111, 102, 105, 108, 101>>
\* '\\wsl$\': what `wslpath -w` puts before the name of the distribution
S_unc == <<92, 92, 119, 115, 108, 36, 92>>
\* 'wsl.exe'
WSL_EXE == <<119, 115, 108, 46, 101, 120, 101>>
\* ' ~ -d '
S_home_d == <<32, 126, 32, 45, 100, 32>>
\* " sh -c '"
S_sh_c == <<32, 115, 104, 32, 45, 99, 32, 39>>
\* "echo '"
S_echo == <<101, 99, 104, 111, 32, 39>>
\* "' | sudo -H -S "
S_sudo == <<39, 32, 124, 32, 115, 117, 100, 111, 32, 45, 72, 32, 45, 83, 32>>
\* '/etc/init.d/dbus start'
S_dbus_start == <<47, 101, 116, 99, 47, 105, 110, 105, 116, 46, 100, 47, 100, 98, 117, 115, 32, 115, 116, 97, 114, 116>>
\* 'system message bus already started'
S_already_started == <<115, 121, 115, 116, 101, 109, 32, 109, 101, 115, 115, 97, 103, 101, 32, 98, 117, 115, 32, 97, 108, 114, 101, 97, 100, 121, 32, 115, 116, 97, 114, 116, 101, 100>>
\* 'None': str(None)
S_None == <<78, 111, 110, 101>>
\* 'wsl': the password of the tests
S_wsl == <<119, 115, 108>>

\* '/home/a'
H_a == <<47, 104, 111, 109, 101, 47, 97>>
\* '/home/ab'
H_ab == <<47, 104, 111, 109, 101, 47, 97, 98>>
\* 'ab:x:1:1::/home/ab:/bin/zsh\n' then 'a:x:2:2::/home/a:/bin/sh\n'
P_two == <<97, 98, 58, 120, 58, 49, 58, 49, 58, 58, 47, 104, 111, 109, 101, 47, 97, 98, 58, 47, 98, 105, 110, 47, 122, 115, 104, 10>>
         \o <<97, 58, 120, 58, 50, 58, 50, 58, 58, 47, 104, 111, 109, 101, 47, 97, 58, 47, 98, 105, 110, 47, 115, 104, 10>>
\* 'root:x:0:0::/root:/bin/ash\n' then 'a:x:2:2::/home/a:/bin/sh\n'
P_a == <<114, 111, 111, 116, 58, 120, 58, 48, 58, 48, 58, 58, 47, 114, 111, 111, 116, 58, 47, 98, 105, 110, 47, 97, 115, 104, 10>>
       \o <<97, 58, 120, 58, 50, 58, 50, 58, 58, 47, 104, 111, 109, 101, 47, 97, 58, 47, 98, 105, 110, 47, 115, 104, 10>>
\* 'nameserver\n'
R_bare == <<110, 97, 109, 101, 115, 101, 114, 118, 101, 114, 10>>

HandleResolvPool == ResolvPool \cup {R_bare}

\* the names of the cached properties
CachedProperties ==
    {"root_unc_path", "home_unc_path", "home_path", "profile_unc_path", "shell", "ip"}

\* s.strip()
strip(s) ==
    LET kept == {i \in 1..Len(s) : s[i] \notin Whitespace}
    IN  IF kept = {} THEN <<>>
        ELSE SubSeq(s, CHOOSE i \in kept : \A j \in kept : i <= j,
                       CHOOSE i \in kept : \A j \in kept : j <= i)

\* s.split(sep) for a one-character sep
RECURSIVE fields_from(_, _, _)
fields_from(sep, s, i) ==
    LET ends == {j \in i..Len(s) : s[j] = sep}
    IN  IF ends = {} THEN <<SubSeq(s, i, Len(s))>>
        ELSE LET e == CHOOSE j \in ends : \A k \in ends : j <= k
             IN  <<SubSeq(s, i, e - 1)>> \o fields_from(sep, s, e + 1)

\* file.readlines(): the lines, each with the "\n" that ends it
RECURSIVE readlines_from(_, _)
readlines_from(s, i) ==
    IF i > Len(s) THEN <<>>
    ELSE LET ends == {j \in i..Len(s) : s[j] = LF}
         IN  IF ends = {} THEN <<SubSeq(s, i, Len(s))>>
             ELSE LET e == CHOOSE j \in ends : \A k \in ends : j <= k
                  IN  <<SubSeq(s, i, e)>> \o readlines_from(s, e + 1)

readlines(s) == readlines_from(s, 1)

\* the path wslpath -w prints for an absolute path of the distribution:
\* \\wsl$\<name> and the path with every / turned into \
wslpath_w(name, unix_path) ==
    S_unc \o name \o [i \in 1..Len(unix_path) |->
                          IF unix_path[i] = 47 THEN BACKSLASH ELSE unix_path[i]]

\* Path(text): a trailing separator is dropped unless it ends the \\server\share\ anchor
Path(text) ==
    LET parts == SelectSeq(fields_from(BACKSLASH, text, 1), LAMBDA x : x # <<>>)
    IN  IF Len(parts) > 2 /\ text[Len(text)] = BACKSLASH
        THEN SubSeq(text, 1, Len(text) - 1)
        ELSE text

\* path / name
joinpath(path, name) ==
    IF path[Len(path)] = BACKSLASH THEN path \o name ELSE path \o <<BACKSLASH>> \o name

\* sh expands ~ to the home directory
expanduser(unix_path) ==
    IF unix_path # <<>> /\ unix_path[1] = 126 THEN home \o Tail(unix_path) ELSE unix_path

\* the path is there inside the distribution: ~/.profile may be missing
path_exists(unix_path) ==
    unix_path = home \o S_slash \o S_dot_profile => profile_file.exists

\* get_cmd_output("wslpath -w `realpath unix_path`"): check=True turns a failed
\* command into CalledProcessError; the command fails when the distribution is not
\* registered and when the path does not exist
wslpath_output(unix_path) ==
    IF ~registered \/ ~path_exists(expanduser(unix_path))
    THEN Raised("CalledProcessError")
    ELSE Returned(wslpath_w(distro.name, expanduser(unix_path)) \o <<LF>>)

\* WSLDistro._unc_path_from_cmd
_unc_path_from_cmd(unix_path) ==
    LET out == wslpath_output(unix_path)
    IN  IF out.ok THEN Returned(Path(strip(out.s))) ELSE out

\* get_cmd_output("echo ~")
echo_home_output ==
    IF ~registered THEN Raised("CalledProcessError") ELSE Returned(home \o <<LF>>)

\* WSLDistro.read_file("/etc/resolv.conf")
read_resolv_conf ==
    LET path == _unc_path_from_cmd(S_etc_resolv_conf)
    IN  IF path.ok THEN Returned(read_text(resolv_conf)) ELSE path

\* what a property's function leaves: its value or exception, and the handle's
\* __dict__ and the functions run on the way
Outcome(r, st) == [ok |-> r.ok, s |-> r.s, err |-> r.err, cache |-> st.cache, ran |-> st.ran]

\* an ordinary property: the function runs on every read and nothing is stored
property_get(name, st, out) == [out EXCEPT !.ran = out.ran \cup {name}]

\* cached_property.__get__, reached only while the instance __dict__ has no entry of
\* that name: the function runs, and its value is stored when it returns one
cached_property_get(name, st, out) ==
    IF name \in DOMAIN st.cache
    THEN [ok |-> TRUE, s |-> st.cache[name], err |-> "", cache |-> st.cache, ran |-> st.ran]
    ELSE [out EXCEPT !.cache = IF out.ok THEN with_item(out.cache, name, out.s)
                                ELSE out.cache,
                     !.ran = out.ran \cup {name}]

\* WSLDistro.root_unc_path
root_unc_path(st) ==
    cached_property_get("root_unc_path", st, Outcome(_unc_path_from_cmd(S_slash), st))

\* WSLDistro.home_unc_path
home_unc_path(st) ==
    cached_property_get("home_unc_path", st, Outcome(_unc_path_from_cmd(S_tilde), st))

\* WSLDistro.home_path
home_path(st) ==
    cached_property_get("home_path", st,
        Outcome(IF echo_home_output.ok THEN Returned(strip(echo_home_output.s))
                ELSE echo_home_output, st))

\* WSLDistro.ip, cached
cached_ip(st) ==
    cached_property_get("ip", st,
        Outcome(IF read_resolv_conf.ok THEN ip(read_resolv_conf.s) ELSE read_resolv_conf, st))

\* profile_unc_path without the except clause
profile_unc_path_unguarded(st) ==
    Outcome(_unc_path_from_cmd(S_tilde_profile), st)

\* the function of WSLDistro.profile_unc_path
profile_unc_path_fn(st) ==
    LET direct == _unc_path_from_cmd(S_tilde_profile)
    IN  IF direct.ok \/ direct.err # "CalledProcessError" THEN Outcome(direct, st)
        ELSE LET h == home_unc_path(st)
             IN  IF h.ok THEN [h EXCEPT !.s = joinpath(h.s, S_dot_profile)] ELSE h

\* WSLDistro.profile_unc_path
profile_unc_path(st) ==
    cached_property_get("profile_unc_path", st, profile_unc_path_fn(st))

\* the function of WSLDistro.shell: /etc/passwd is opened under root_unc_path, which
\* fails when the distribution is not registered
shell_fn(st) ==
    LET h == home_path(st)
    IN  IF ~h.ok THEN h
        ELSE LET root == root_unc_path(h)
             IN  IF ~root.ok THEN root
                 ELSE IF ~registered THEN [root EXCEPT !.ok = FALSE, !.s = <<>>, !.err = "OSError"]
                 ELSE LET lines == readlines(passwd)
                          found == {i \in 1..Len(lines) : Contains(h.s, lines[i])}
                      IN  IF found = {}
                          THEN [root EXCEPT !.ok = FALSE, !.s = <<>>, !.err = "StopIteration"]
                          ELSE LET line == lines[CHOOSE i \in found : \A j \in found : i <= j]
                                   words == fields_from(58, line, 1)
                               IN  [root EXCEPT !.s = strip(words[Len(words)])]

\* WSLDistro.shell
shell(st) == cached_property_get("shell", st, shell_fn(st))

\* getattr(handle, name)
read_property(name, st) ==
    CASE name = "root_unc_path" -> root_unc_path(st)
      [] name = "home_unc_path" -> home_unc_path(st)
      [] name = "home_path" -> home_path(st)
      [] name = "profile_unc_path" -> profile_unc_path(st)
      [] name = "shell" -> shell(st)
      [] OTHER -> cached_ip(st)

\* WSLDistro._cmd_base
_cmd_base == WSL_EXE \o S_home_d \o distro.name

\* the command line run_command and run_background_command launch
command_line(command) == _cmd_base \o S_sh_c \o command \o <<39>>

\* the command run_sudo passes to run_command
sudo_command(command, sudo_password) == S_echo \o sudo_password \o S_sudo \o command

\* what `/etc/init.d/dbus start` prints
dbus_start_output == IF bus THEN S_already_started \o <<LF>> ELSE <<>>

\* str(v.stdout) of the Popen object: stdout is a stream only when a pipe was asked
\* for, and run_background_command asks for none
str_stdout(piped, output) == IF piped THEN output ELSE S_None

HandleCall(name, now) == [name |-> name, ran |-> now]

\* a read of a cached property of the handle
access(name) ==
    /\ reads < MaxAccesses
    /\ LET r == read_property(name, [cache |-> cache, ran |-> {}])
       IN  /\ cache' = r.cache
           /\ ran' = ran \cup r.ran
           /\ outcome' = [ok |-> r.ok, s |-> r.s, err |-> r.err]
           /\ err' = r.err
           /\ op' = HandleCall(name, r.ran)
    /\ reads' = reads + 1
    /\ UNCHANGED <<registered, home, passwd, bus, issued, distroVars, managerVars,
                   listingVars, raceVars>>

\* WSLDistro.remove
remove ==
    /\ registered
    /\ reads < MaxAccesses
    /\ registered' = FALSE
    /\ bus' = FALSE
    /\ op' = HandleCall("remove", {})
    /\ err' = ""
    /\ UNCHANGED <<home, passwd, cache, ran, reads, outcome, issued, distroVars,
                   managerVars, listingVars, raceVars>>

\* the distribution is imported again under its name, behind the handle's back
import_again ==
    /\ ~registered
    /\ reads < MaxAccesses
    /\ registered' = TRUE
    /\ op' = HandleCall("import", {})
    /\ UNCHANGED <<err, home, passwd, bus, cache, ran, reads, outcome, issued, distroVars,
                   managerVars, listingVars, raceVars>>

\* WSL writes /etc/resolv.conf anew when the distribution starts
rewrite_resolv_conf(text) ==
    /\ registered
    /\ reads < MaxAccesses
    /\ text # resolv_conf
    /\ resolv_conf' = text
    /\ op' = HandleCall("resolv.conf", {})
    /\ UNCHANGED <<err, profile_file, distro, handleVars, managerVars, listingVars, raceVars>>

\* WSLDistro.start_dbus: the privileged start brings the bus up when sudo takes the
\* password
start_dbus(sudo_password, accepted) ==
    /\ reads < MaxAccesses
    /\ reads' = reads + 1
    /\ LET first == command_line(S_dbus_start)
           v_stdout == str_stdout(FALSE, dbus_start_output)
       IN  IF Contains(S_already_started, v_stdout)
           THEN issued' = <<first>> /\ UNCHANGED bus
           ELSE /\ issued' = <<first, command_line(sudo_command(S_dbus_start, sudo_password))>>
                /\ bus' = (bus \/ (registered /\ accepted))
    /\ op' = HandleCall("start_dbus", {})
    /\ err' = ""
    /\ UNCHANGED <<registered, home, passwd, cache, ran, outcome, distroVars,
                   managerVars, listingVars, raceVars>>

HandleInit ==
    /\ \/ /\ home \in {H_a, H_ab}
          /\ passwd \in {P_two, P_a}
          /\ resolv_conf = R_nameserver
          /\ profile_file = [exists |-> TRUE, data |-> <<>>]
          /\ bus = FALSE
       \/ /\ home = H_a
          /\ passwd = P_a
          /\ resolv_conf \in HandleResolvPool
          /\ profile_file \in {[exists |-> FALSE, data |-> <<>>],
                               [exists |-> TRUE, data |-> <<>>]}
          /\ bus \in BOOLEAN
    /\ registered = TRUE
    /\ cache = <<>>
    /\ ran = {}
    /\ reads = 0
    /\ outcome = [ok |-> TRUE, s |-> <<>>, err |-> ""]
    /\ issued = <<>>
    /\ distro = [name |-> N_alpine_base, version |-> 2]
    /\ op = HandleCall("", {})
    /\ err = ""
    /\ platform = <<>>
    /\ supplied = [given |-> FALSE, list |-> <<>>]
    /\ blacklist = <<>>
    /\ distros = <<>>
    /\ nextId = 0
    /\ ret = [id |-> 0, name |-> <<>>, version |-> 0]
    /\ ListingIdle
    /\ RaceIdle

HandleNext ==
    \/ \E name \in CachedProperties : access(name)
    \/ remove
    \/ import_again
    \/ \E text \in HandleResolvPool : rewrite_resolv_conf(text)
    \/ \E accepted \in BOOLEAN : start_dbus(S_wsl, accepted)

HandleSpec == HandleInit /\ [][HandleNext]_vars

-----------------------------------------------------------------------------
(* Properties of the profile editor, checked under DistroSpec. *)

\* the call o edited the profile through _edit_profile_export(o.variable, o.value)
export_call(o) ==
    \/ o.name \in {"gtk_scale", "qt_scale"} /\ o.arg \in {1, 2}
    \/ o.name = "set_display" /\ o.value # <<>>

\* the line export VARIABLE=value
export_line(variable, value) == S_export_sp \o variable \o S_eq \o value

\* line matches ^\s*export\s+VARIABLE\s*=.*$
is_export_of(variable, line) ==
    match_at(export_regex(variable), 1, line, 1) = Len(line) + 1

\* lines with the first line that exports variable replaced by new_line
replace_first(lines, variable, new_line) ==
    LET hits == {i \in 1..Len(lines) : is_export_of(variable, lines[i])}
    IN  IF hits = {} THEN lines
        ELSE [lines EXCEPT ![CHOOSE i \in hits : \A j \in hits : i <= j] = new_line]

\* C1: when the profile has a line matching ^\s*export\s+V\s*=.*$, set_export(V, X)
\* leaves the profile with the first such line replaced by `export V=X` and every
\* other line as it was.
C1_ReplacesFirstMatchingLine ==
    [][(/\ export_call(op')
        /\ \E i \in 1..Len(splitlines(profile)) :
               is_export_of(op'.variable, splitlines(profile)[i]))
       => splitlines(profile_of(profile_file')) =
              replace_first(splitlines(profile), op'.variable,
                            export_line(op'.variable, op'.value))]_vars

\* C2: set_export(V, X) made twice in a row leaves the profile file, byte for byte,
\* as the first of the two calls left it.
C2_SetExportIdempotent ==
    [][(/\ export_call(op)
        /\ export_call(op')
        /\ op'.variable = op.variable
        /\ op'.value = op.value)
       => profile_file' = profile_file]_vars

\* C3: when V is absent from the profile (the empty profile and a profile without a
\* final newline included), set_export(V, X) leaves the prior lines, unchanged and
\* in order, followed by the one line `export V=X`, and the text ends in "\n".
C3_AppendsOneLine ==
    [][(/\ export_call(op')
        /\ ~Contains(S_export_sp \o op'.variable, profile))
       => /\ splitlines(profile_of(profile_file')) =
                 Append(splitlines(profile), export_line(op'.variable, op'.value))
          /\ EndsWith(profile_of(profile_file'), <<LF>>)]_vars

\* C4: right after gtk_scale (qt_scale) is assigned s in {1, 2}, reading it returns s,
\* and after the assignment of 2 the profile contains `export GDK_SCALE=2`
\* (`export QT_SCALE_FACTOR=2`).
C4_ScaleReadsBackAssigned ==
    [][/\ (op'.name = "gtk_scale" /\ op'.arg \in {1, 2})
          => /\ gtk_scale(profile_of(profile_file')) = op'.arg
             /\ op'.arg = 2 => Contains(S_export_sp \o S_GDK_SCALE_2, profile_of(profile_file'))
       /\ (op'.name = "qt_scale" /\ op'.arg \in {1, 2})
          => /\ qt_scale(profile_of(profile_file')) = op'.arg
             /\ op'.arg = 2 => Contains(S_export_sp \o S_QT_SCALE_FACTOR_2, profile_of(profile_file'))]_vars

\* C5: an assignment to gtk_scale or qt_scale of a value outside {1, 2} raises
\* ValueError and leaves the profile file exactly as it was.
C5_BadScaleRejectedProfileKept ==
    [][(op'.name \in {"gtk_scale", "qt_scale"} /\ op'.arg \notin {1, 2})
       => /\ err' = "ValueError"
          /\ profile_file' = profile_file]_vars

\* C5, its case: a scale of 3 was assigned on a profile that has text, and refused
C5_Witness ==
    /\ op.name = "gtk_scale"
    /\ op.arg = 3
    /\ err = "ValueError"
    /\ profile # <<>>

\* line matches ^\s*export GTK_THEME=.*$
is_theme_export(line) == match_at(theme_regex, 1, line, 1) = Len(line) + 1

kept_line(line) == line # <<>> /\ ~is_theme_export(line)

nonblank(line) == line # <<>>

\* C6: theme = "Default" on a profile with an `export GTK_THEME=` line removes that
\* export and leaves every other line in place (a blank line where the export stood
\* is tolerated here); Default is not written, and theme then reads "Default".
C6_DefaultThemeRemovesExportOnly ==
    [][(/\ op'.name = "theme"
        /\ op'.value = S_Default
        /\ \E i \in 1..Len(splitlines(profile)) : is_theme_export(splitlines(profile)[i]))
       => /\ SelectSeq(splitlines(profile_of(profile_file')), nonblank) =
                 SelectSeq(splitlines(profile), kept_line)
          /\ ~Contains(S_Default, profile_of(profile_file'))
          /\ theme(profile_of(profile_file')) = S_Default]_vars

-----------------------------------------------------------------------------
(* Properties of the registry, checked under ManagerSpec. *)

\* the installed names that contain no substring of the blacklist bl
not_blacklisted(rows, bl) ==
    {n \in installed_names(rows) : \A i \in 1..Len(bl) : ~Contains(bl[i], n)}

\* C7: after construction and after every refresh() the keys of the registry are
\* exactly the names the list command reports that contain no blacklist substring,
\* each mapped to a handle of that name with the version listed.
C7_KeysAreListedNotBlacklisted ==
    op.name \in {"__init__", "refresh"}
    => /\ names = not_blacklisted(platform, blacklist)
       /\ \A i \in 1..Len(platform) :
              platform[i].name \in names
              => /\ distros[platform[i].name].name = platform[i].name
                 /\ distros[platform[i].name].version = platform[i].version

\* C7, its case: a refresh with docker-desktop and Ubuntu-20.04 (version 2) listed
\* and the default blacklist left Ubuntu-20.04 alone, with version 2
C7_Witness ==
    /\ op.name = "refresh"
    /\ blacklist = <<S_docker>>
    /\ platform = <<Installed(N_docker_desktop, 2), Installed(N_Ubuntu, 2)>>
    /\ names = {N_Ubuntu}
    /\ distros[N_Ubuntu].version = 2

\* str.lower() on ASCII
lower(s) == [i \in 1..Len(s) |-> IF s[i] \in 65..90 THEN s[i] + 32 ELSE s[i]]

\* C8: with the default blacklist no name of the registry contains "docker" in any
\* letter case.
C8_NoDockerInAnyCase ==
    ~supplied.given => \A n \in names : ~Contains(S_docker, lower(n))

\* C9: refresh() leaves the set of names as it was when the installed distributions
\* are the same before and after it.
C9_RefreshKeepsNames ==
    [][(op'.name = "refresh" /\ platform' = platform)
       => DOMAIN distros' = DOMAIN distros]_vars

\* C10: when the import command succeeds, import_distro(name, ..., version) maps name
\* to the handle it returns, whose name is name and whose version is the one passed
\* (2 when none is), and leaves every other entry of the registry as it was.
C10_ImportRegistersReturnedHandle ==
    [][(op'.name = "import_distro" /\ op'.succeeded)
       => /\ op'.distribution \in DOMAIN distros'
          /\ distros'[op'.distribution] = ret'
          /\ ret'.name = op'.distribution
          /\ ret'.version = (IF op'.args = <<>> THEN 2 ELSE op'.args[1])
          /\ DOMAIN distros' = DOMAIN distros \cup {op'.distribution}
          /\ \A n \in DOMAIN distros \ {op'.distribution} : distros'[n] = distros[n]]_vars

\* C10, its case: an import with version 1 succeeded into a registry that holds
\* another distribution
C10_Witness ==
    /\ op.name = "import_distro"
    /\ op.succeeded
    /\ op.args = <<1>>
    /\ distros[op.distribution] = ret
    /\ ret.version = 1
    /\ Cardinality(DOMAIN distros) >= 2

-----------------------------------------------------------------------------
(* Properties of the enumeration, checked under EnumerationSpec. *)

\* the version the table states for the row, 1 where it states none that is a number
stated_version(versioned, row) ==
    LET v == int_version([kind |-> "str", s |-> row.version])
    IN  IF versioned /\ row.has_version /\ v.ok THEN v.n ELSE 1

\* C11: an enumeration (construction or refresh) does not fail, and every row whose
\* name contains no blacklist substring is inserted, with version 1 when its VERSION
\* field is missing or is no number (the rows after such a row included).
C11_BadVersionInsertedAsOne ==
    op.name \in {"__init__", "refresh"}
    => /\ err = ""
       /\ \A i \in 1..Len(listing.rows) :
              (\A k \in 1..Len(blacklist) : ~Contains(blacklist[k], listing.rows[i].name))
              => /\ listing.rows[i].name \in DOMAIN distros
                 /\ distros[listing.rows[i].name].version =
                        stated_version(listing.versioned, listing.rows[i])

-----------------------------------------------------------------------------
(* Properties of two handles at work, checked under RaceSpec. *)

\* the last two calls that ended are h's and then g's, both read the same profile
\* before either ended, that profile exported neither variable, and no file is open
lost_update(h, g) ==
    /\ h # g
    /\ Len(log) >= 2
    /\ log[Len(log) - 1].handle = h
    /\ log[Len(log)].handle = g
    /\ log[Len(log) - 1].read_at = Len(log) - 2
    /\ log[Len(log)].read_at = Len(log) - 2
    /\ log[Len(log) - 1].profile = log[Len(log)].profile
    /\ ~Contains(S_export_sp \o handle_variable(h), log[Len(log)].profile)
    /\ ~Contains(S_export_sp \o handle_variable(g), log[Len(log)].profile)
    /\ \A x \in Handles : calls[x].pc # "opened"

\* text ended by "\n"
newline_ended(text) == IF EndsWith(text, <<LF>>) THEN text ELSE text \o <<LF>>

\* C12: when two set_export calls for different variables both read the profile
\* before either writes it, the profile is left as the last writer alone would have
\* left it: it holds the last writer's export line, the other's export is nowhere in
\* it, and neither call raised.
C12_LastWriterWins ==
    \A h \in Handles, g \in Handles :
        lost_update(h, g)
        => /\ profile = newline_ended(log[Len(log)].profile)
                        \o export_line(handle_variable(g), decimal(log[Len(log)].value))
                        \o <<LF>>
           /\ ~Contains(S_export_sp \o handle_variable(h), profile)
           /\ log[Len(log) - 1].err = ""
           /\ log[Len(log)].err = ""

\* C12, its case: gtk_scale = 2 and qt_scale = 2 raced on a profile with a line in
\* it, qt_scale wrote last and GDK_SCALE is lost
C12_Witness ==
    /\ lost_update(1, 2)
    /\ log[1].value = 2
    /\ log[1].profile # <<>>
    /\ Contains(S_QT_SCALE_FACTOR_2, profile)
    /\ ~Contains(S_GDK_SCALE, profile)

-----------------------------------------------------------------------------
(* Properties of one handle, checked under HandleSpec. *)

\* the step is a read of a cached property
property_read == reads' # reads /\ op'.name \in CachedProperties

\* C13, as claimed: on one handle the function of a cached property runs at most
\* once (also when it runs on behalf of another property), every later read returns
\* the value it computed first, and no step takes a stored value away or changes it.
C13_ComputedAtMostOnce ==
    [][/\ \A p \in DOMAIN cache : p \in DOMAIN cache' /\ cache'[p] = cache[p]
       /\ property_read
          => /\ op'.ran \cap ran = {}
             /\ op'.name \in ran
                => /\ op'.name \in DOMAIN cache
                   /\ outcome' = Returned(cache[op'.name])]_vars

\* C13, amended: a function that has returned a value never runs again on the handle:
\* the value is stored, every later read returns it, and no step (remove, start_dbus,
\* a change inside the distribution) takes it away or changes it; a function that
\* raised stores nothing, so that the next read runs it again.
C13_ReturnedValueKept ==
    [][/\ \A p \in DOMAIN cache : p \in DOMAIN cache' /\ cache'[p] = cache[p]
       /\ property_read
          => /\ op'.ran \cap DOMAIN cache = {}
             /\ op'.name \in DOMAIN cache
                => op'.ran = {} /\ outcome' = Returned(cache[op'.name])
             /\ IF outcome'.ok
                THEN op'.name \in DOMAIN cache' /\ cache'[op'.name] = outcome'.s
                ELSE op'.name \notin DOMAIN cache']_vars

\* C13, its case: ip was read again after /etc/resolv.conf lost its nameserver line;
\* nothing ran and the address computed first came back
C13_Witness ==
    /\ op.name = "ip"
    /\ op.ran = {}
    /\ "ip" \in ran
    /\ outcome.ok
    /\ outcome.s = cache["ip"]
    /\ resolv_conf = R_none
    /\ ~ip(read_text(resolv_conf)).ok

\* C14: when the command that translates ~/.profile fails, profile_unc_path returns the
\* home path of the host joined with .profile, and raises (CalledProcessError) only
\* when the home directory cannot be translated either.
C14_ProfilePathFallsBack ==
    [][(/\ property_read
        /\ op'.name = "profile_unc_path"
        /\ "profile_unc_path" \in op'.ran
        /\ ~wslpath_output(S_tilde_profile).ok)
       => IF "home_unc_path" \in DOMAIN cache
          THEN outcome' = Returned(cache["home_unc_path"] \o <<BACKSLASH>> \o S_dot_profile)
          ELSE IF registered
          THEN outcome' = Returned(wslpath_w(distro.name, home)
                                   \o <<BACKSLASH>> \o S_dot_profile)
          ELSE outcome' = Raised("CalledProcessError")]_vars

\* C14, its case: the distribution has no ~/.profile yet and the path came back
C14_Witness ==
    /\ op.name = "profile_unc_path"
    /\ "profile_unc_path" \in op.ran
    /\ "home_unc_path" \in op.ran
    /\ registered
    /\ ~profile_file.exists
    /\ outcome = Returned(wslpath_w(distro.name, home) \o <<BACKSLASH>> \o S_dot_profile)

\* C15: ip is the second whitespace-separated token of the first line of
\* /etc/resolv.conf that contains `nameserver`; with no such line it raises ValueError,
\* and it raises nothing else.
C15_IpSecondTokenOrValueError ==
    [][(property_read /\ op'.name = "ip" /\ "ip" \in op'.ran /\ registered)
       => LET lines == splitlines(read_text(resolv_conf))
              found == {i \in 1..Len(lines) : Contains(S_nameserver, lines[i])}
          IN  IF found = {} THEN outcome' = Raised("ValueError")
              ELSE LET words == split(lines[CHOOSE i \in found : \A j \in found : i <= j])
                   IN  Len(words) >= 2 /\ outcome' = Returned(words[2])]_vars

\* C16: the shell returned is the last field of a row of /etc/passwd whose home
\* directory field is the home path of the user, and of no other row.
C16_ShellOfHomeRow ==
    [][(property_read /\ op'.name = "shell" /\ "shell" \in op'.ran /\ outcome'.ok)
       => \E i \in 1..Len(readlines(passwd)) :
              LET row == fields_from(58, readlines(passwd)[i], 1)
              IN  /\ Len(row) >= 2
                  /\ row[Len(row) - 1] = cache'["home_path"]
                  /\ outcome'.s = strip(row[Len(row)])]_vars

\* C19: start_dbus launches no sudo command when the bus is running already (when the
\* unprivileged start reports "system message bus already started").
C19_NoSudoWhenBusRuns ==
    [][(op'.name = "start_dbus" /\ bus)
       => \A i \in 1..Len(issued') : ~Contains(S_sudo, issued'[i])]_vars

-----------------------------------------------------------------------------
(* The theme round trip, checked under DistroSpec. *)

\* C17: after theme = T, for a T other than "Default" and whatever the profile held,
\* a read of theme returns exactly T.
C17_ThemeReadsBackAssigned ==
    [][(op'.name = "theme" /\ op'.value # S_Default)
       => theme(profile_of(profile_file')) = op'.value]_vars

-----------------------------------------------------------------------------
(* The blacklist argument, checked under ManagerSpec. *)

\* C18: a registry constructed with a blacklist excludes exactly the names that
\* contain one of the substrings supplied (none for an empty blacklist); names
\* containing "docker" are excluded by default only when no blacklist is supplied.
C18_SuppliedBlacklistOnly ==
    op.name \in {"__init__", "refresh"}
    => names = not_blacklisted(platform,
                               IF supplied.given THEN supplied.list ELSE <<S_docker>>)

====
